---- MODULE Spec2Model ----
(***************************************************************************)
(* Model of zombar/scraper: the SQLite store (db/db.go), the scrape        *)
(* pipeline (scraper.go) and the HTTP handlers (api/server.go).            *)
(*                                                                         *)
(* SpecDB     the store: SaveScrapedData as the statements of its          *)
(*            transaction, DeleteByID, and readers between the statements  *)
(* SpecSrv    the handlers: handleScrape and handleBatchScrape with one    *)
(*            task per URL, over the store                                 *)
(* SpecScore  repeated evaluations of scoreContentFallback on one input    *)
(* SpecFn     one call of downloadImage, AnalyzeImage or                   *)
(*            extractLinksWithOllama on one input                          *)
(* SpecScrape two concurrent tasks, each running Scraper.Scrape call by    *)
(*            call under its own context                                   *)
(***************************************************************************)
EXTENDS Integers, Sequences, FiniteSets, TLC

\* ------------------------------------------------------------------ bounds
MaxIds == 2          \* record identifiers 1..MaxIds (uuid values)
NumImgIds == 2       \* image identifiers 1..NumImgIds (uuid values)
MaxImages == 1       \* images per record
MaxBatch == 2        \* URLs in one batch request
MaxURLParts == 2     \* substrings of interest in a scored URL
MaxEvals == 2        \* evaluations of the scorer on one input
MaxImageSizeBytes == 2   \* config.MaxImageSizeBytes, the image byte ceiling
MaxPageImages == 2   \* <img> elements on a scraped page
MaxTags == 2         \* tags of one stored image, and of one tag query
MaxTimeout == 2      \* largest timeout of a configuration, in ticks
MaxTitles == 2       \* <title> elements of a document

\* ------------------------------------------------------------------ values
Nil == [nil |-> TRUE]
NoID == 0            \* the empty string as an image ID
StoreURLs == {"http://a", "http://b"}
Contents == {"raw", "ai"}
RecordIDs == 1..MaxIds
ImgIDs == 1..NumImgIds
Writers == {1}

RECURSIVE SeqsUpTo(_, _)
SeqsUpTo(S, n) ==
    IF n = 0 THEN {<<>>}
    ELSE LET shorter == SeqsUpTo(S, n - 1)
         IN shorter \cup {Append(s, x) : s \in {t \in shorter : Len(t) = n - 1}, x \in S}

Range(s) == {s[i] : i \in 1..Len(s)}

\* models.ImageInfo, as far as the store uses it
ImageInfos == [id : ImgIDs \cup {NoID}]

\* models.ScrapedData values handed to SaveScrapedData
SaveInputs ==
    [id : RecordIDs, url : StoreURLs, content : {"ai"},
     images : SeqsUpTo(ImageInfos, MaxImages), cached : {FALSE}]

VARIABLES
    scraped_data,   \* committed rows of table scraped_data: [id, url, data]
    images,         \* committed rows of table images: [id, scrape_id]
    tx,             \* per caller of SaveScrapedData: the open transaction
    ret,            \* per caller: the error value of its last SaveScrapedData
    writer,         \* the caller holding SQLite's write lock, or 0
    lastCall,       \* the most recent store call that changed the tables
    srv,            \* the handler: "recv", "run", "done", or "off"
    mode,           \* "single" (handleScrape) or "batch" (handleBatchScrape)
    req,            \* the decoded request: [urls, force]
    item,           \* per URL: the task running processSingleURL / the pipeline
    results,        \* the results slice of handleBatchScrape
    resp,           \* the HTTP response, Nil until written
    io,             \* per URL: the kinds of I/O its task has performed
    uuids,          \* number of uuid.New() values handed out so far
    analysis,       \* config.EnableImageAnalysis
    sin,            \* scorer: the input (url, title, content)
    evals,          \* scorer: the values returned so far for sin
    sc,             \* per task: position and locals of its Scrape call
    cancelled,      \* per task: its scrapeCtx has been cancelled or has timed out
    parentCancelled, \* the request context r.Context() has been cancelled
    fin,            \* single call: the function called and its arguments
    fout            \* single call: what it returned, Nil before the call

dbvars == <<tx, ret, writer, lastCall>>
srvvars == <<srv, mode, req, item, results, resp, io, uuids, analysis>>
scorevars == <<sin, evals>>
scrapevars == <<sc, cancelled, parentCancelled>>
fnvars == <<fin, fout>>
vars == <<scraped_data, images, tx, ret, writer, lastCall,
          srv, mode, req, item, results, resp, io, uuids, analysis,
          sin, evals, sc, cancelled, parentCancelled, fin, fout>>

\* ------------------------------------------------------------ the tables
\* json.Marshal(data) and json.Unmarshal of the data column
Marshal(d) ==
    [id |-> d.id, url |-> d.url, content |-> d.content,
     images |-> d.images, cached |-> d.cached]
Unmarshal(j) ==
    [id |-> j.id, url |-> j.url, content |-> j.content,
     images |-> j.images, cached |-> j.cached]

Committed == [scraped_data |-> scraped_data, images |-> images]
EmptyDB == [scraped_data |-> {}, images |-> {}]

RowsByURL(db, u) == {r \in db.scraped_data : r.url = u}
RowsByID(db, id) == {r \in db.scraped_data : r.id = id}
ImagesOf(db, id) == {im \in db.images : im.scrape_id = id}

GetByURL(db, u) ==
    IF RowsByURL(db, u) = {} THEN Nil
    ELSE Unmarshal((CHOOSE r \in RowsByURL(db, u) : TRUE).data)

GetByID(db, id) ==
    IF RowsByID(db, id) = {} THEN Nil
    ELSE Unmarshal((CHOOSE r \in RowsByID(db, id) : TRUE).data)

\* Timestamps are named after the record they come with: data.FetchedAt is
\* a field of the record, time.Now() is taken by the save that writes it.
FetchedAt(d) == d.id
Now(d) == d.id

\* VALUES (data.ID, data.URL, jsonData, data.FetchedAt, time.Now())
InsertRow(d) ==
    [id |-> d.id, url |-> d.url, data |-> Marshal(d),
     created_at |-> FetchedAt(d), updated_at |-> Now(d)]

\* the conflicting row is replaced by the inserted one
ConflictUpdate_replaceRow(r, d) == InsertRow(d)

\* DO UPDATE SET id = excluded.id, data = excluded.data,
\*               updated_at = excluded.updated_at
ConflictUpdate(r, d) ==
    [r EXCEPT !.id = d.id, !.data = Marshal(d), !.updated_at = Now(d)]

\* INSERT INTO scraped_data ... ON CONFLICT(url) DO UPDATE SET id, data, updated_at
\* fk: whether the connection running it enforces foreign keys
Upsert_keepId(db, d, fk) ==
    LET existing == RowsByURL(db, d.url)
        others   == db.scraped_data \ existing
        idClash  == existing = {} /\ \E r \in others : r.id = d.id
        newRows  == IF existing = {}
                    THEN {InsertRow(d)}
                    ELSE {[r EXCEPT !.data = Marshal(d), !.updated_at = Now(d)] :
                             r \in existing}
    IN  IF idClash THEN [ok |-> FALSE, db |-> db]
        ELSE [ok |-> TRUE, db |-> [db EXCEPT !.scraped_data = others \cup newRows]]

Upsert(db, d, fk) ==
    LET existing == RowsByURL(db, d.url)
        others   == db.scraped_data \ existing
        \* id is the primary key: another row may not hold it
        idClash  == \E r \in others : r.id = d.id
        \* images.scrape_id REFERENCES scraped_data(id), no ON UPDATE action:
        \* the parent key of a row with image rows may not change
        fkViol   == fk /\ \E r \in existing :
                        r.id # d.id /\ ImagesOf(db, r.id) # {}
        newRows  == IF existing = {}
                    THEN {InsertRow(d)}
                    ELSE {ConflictUpdate(r, d) : r \in existing}
    IN  IF idClash \/ fkViol THEN [ok |-> FALSE, db |-> db]
        ELSE [ok |-> TRUE, db |-> [db EXCEPT !.scraped_data = others \cup newRows]]

\* DELETE FROM images WHERE scrape_id = ?
DeleteImagesWhere(db, id) ==
    [db EXCEPT !.images = db.images \ ImagesOf(db, id)]

\* INSERT INTO images (id, scrape_id, ...): images.id is the primary key
InsertImage(db, img, scrapeID) ==
    IF \E im \in db.images : im.id = img.id
    THEN [ok |-> FALSE, db |-> db]
    ELSE [ok |-> TRUE,
          db |-> [db EXCEPT !.images = db.images \cup
                     {[id |-> img.id, scrape_id |-> scrapeID]}]]

\* DELETE FROM scraped_data WHERE id = ?  (ON DELETE CASCADE when enforced)
DeleteRow(db, id, fk) ==
    [scraped_data |-> db.scraped_data \ RowsByID(db, id),
     images |-> IF fk THEN db.images \ ImagesOf(db, id) ELSE db.images]

\* ------------------------------------------------- SaveScrapedData, stepwise
IdleTx == [pc |-> "idle"]
SaveErrors ==
    {"failed to begin transaction", "failed to save data",
     "failed to delete old images", "failed to save image",
     "failed to commit transaction"}

\* return with an error: the deferred tx.Rollback() drops the working copy
Rollback(p, err) ==
    /\ tx' = [tx EXCEPT ![p] = IdleTx]
    /\ ret' = [ret EXCEPT ![p] = err]
    /\ writer' = IF writer = p THEN 0 ELSE writer
    /\ UNCHANGED <<scraped_data, images, lastCall, srvvars, scorevars, scrapevars, fnvars>>

\* db.conn.Begin(): a pooled connection is bound to the transaction; whether
\* it enforces foreign keys shows at its first statement
TxBegin(p) ==
    /\ tx[p].pc = "idle"
    /\ \E d \in SaveInputs, fault \in BOOLEAN :
        IF fault
        THEN /\ ret' = [ret EXCEPT ![p] = "failed to begin transaction"]
             /\ UNCHANGED <<scraped_data, images, tx, writer, lastCall, srvvars, scorevars, scrapevars, fnvars>>
        ELSE /\ tx' = [tx EXCEPT ![p] = [pc |-> "begun", data |-> d]]
             /\ ret' = [ret EXCEPT ![p] = "none"]
             /\ UNCHANGED <<scraped_data, images, writer, lastCall, srvvars, scorevars, scrapevars, fnvars>>

\* the upsert run on db.conn instead of tx: visible at once
TxUpsert_autocommit(p) ==
    /\ tx[p].pc = "begun"
    /\ \E fault \in BOOLEAN, fk \in BOOLEAN :
        IF fault THEN Rollback(p, "failed to save data")
        ELSE /\ writer = 0
             /\ LET r == Upsert(Committed, tx[p].data, fk)
                    old == RowsByURL(Committed, tx[p].data.url)
                IN IF r.ok
                   THEN /\ tx' = [tx EXCEPT ![p] =
                                [pc |-> "upserted", data |-> tx[p].data,
                                 work |-> r.db, k |-> 0,
                                 prev |-> IF old = {} THEN NoID
                                          ELSE (CHOOSE o \in old : TRUE).id]]
                        /\ writer' = p
                        /\ scraped_data' = r.db.scraped_data
                        /\ UNCHANGED <<images, ret, lastCall, srvvars, scorevars, scrapevars, fnvars>>
                   ELSE Rollback(p, "failed to save data")

\* tx.Exec(upsert): the first write takes the write lock
TxUpsert(p) ==
    /\ tx[p].pc = "begun"
    /\ \E fault \in BOOLEAN, fk \in BOOLEAN :
        IF fault THEN Rollback(p, "failed to save data")
        ELSE /\ writer = 0
             /\ LET r == Upsert(Committed, tx[p].data, fk)
                    old == RowsByURL(Committed, tx[p].data.url)
                IN IF r.ok
                   THEN /\ tx' = [tx EXCEPT ![p] =
                                [pc |-> "upserted", data |-> tx[p].data,
                                 work |-> r.db, k |-> 0,
                                 prev |-> IF old = {} THEN NoID
                                          ELSE (CHOOSE o \in old : TRUE).id]]
                        /\ writer' = p
                        /\ UNCHANGED <<scraped_data, images, ret, lastCall, srvvars, scorevars, scrapevars, fnvars>>
                   ELSE Rollback(p, "failed to save data")

\* tx.Exec("DELETE FROM images WHERE scrape_id = ?", data.ID)
TxDeleteImages(p) ==
    /\ tx[p].pc = "upserted"
    /\ \E fault \in BOOLEAN :
        IF fault THEN Rollback(p, "failed to delete old images")
        ELSE /\ tx' = [tx EXCEPT ![p].pc = "images", ![p].k = 1,
                          ![p].work = DeleteImagesWhere(tx[p].work, tx[p].data.id)]
             /\ UNCHANGED <<scraped_data, images, ret, writer, lastCall, srvvars, scorevars, scrapevars, fnvars>>

\* one round of the loop over data.Images
TxInsertImage(p) ==
    /\ tx[p].pc = "images"
    /\ tx[p].k <= Len(tx[p].data.images)
    /\ LET img == tx[p].data.images[tx[p].k]
       IN IF img.id = NoID
          THEN /\ tx' = [tx EXCEPT ![p].k = @ + 1]
               /\ UNCHANGED <<scraped_data, images, ret, writer, lastCall, srvvars, scorevars, scrapevars, fnvars>>
          ELSE \E fault \in BOOLEAN :
               LET r == InsertImage(tx[p].work, img, tx[p].data.id)
               IN IF fault \/ ~r.ok THEN Rollback(p, "failed to save image")
                  ELSE /\ tx' = [tx EXCEPT ![p].k = @ + 1, ![p].work = r.db]
                       /\ UNCHANGED <<scraped_data, images, ret, writer, lastCall, srvvars, scorevars, scrapevars, fnvars>>

\* tx.Commit()
TxCommit(p) ==
    /\ tx[p].pc = "images"
    /\ tx[p].k > Len(tx[p].data.images)
    /\ \E fault \in BOOLEAN :
        IF fault THEN Rollback(p, "failed to commit transaction")
        ELSE /\ scraped_data' = tx[p].work.scraped_data
             /\ images' = tx[p].work.images
             /\ tx' = [tx EXCEPT ![p] = IdleTx]
             /\ ret' = [ret EXCEPT ![p] = "nil"]
             /\ writer' = 0
             /\ lastCall' = [kind |-> "save", data |-> tx[p].data,
                             prev |-> tx[p].prev]
             /\ UNCHANGED <<srvvars, scorevars, scrapevars, fnvars>>

\* DeleteByID: one autocommit statement on some pooled connection
DeleteByID ==
    \E id \in RecordIDs, fk \in BOOLEAN, fault \in BOOLEAN :
        IF fault \/ RowsByID(Committed, id) = {}
        THEN UNCHANGED <<scraped_data, images, tx, ret, writer, lastCall, srvvars, scorevars, scrapevars, fnvars>>
        ELSE /\ writer = 0
             /\ scraped_data' = DeleteRow(Committed, id, fk).scraped_data
             /\ images' = DeleteRow(Committed, id, fk).images
             /\ lastCall' = [kind |-> "delete", id |-> id]
             /\ UNCHANGED <<tx, ret, writer, srvvars, scorevars, scrapevars, fnvars>>

\* ------------------------------------------- SaveScrapedData as one call
RECURSIVE InsertImages(_, _, _, _)
InsertImages(r, imgs, k, scrapeID) ==
    IF ~r.ok \/ k > Len(imgs) THEN r
    ELSE IF imgs[k].id = NoID THEN InsertImages(r, imgs, k + 1, scrapeID)
    ELSE InsertImages(InsertImage(r.db, imgs[k], scrapeID), imgs, k + 1, scrapeID)

\* the committed result of the whole transaction on database db, or db
\* itself with ok = FALSE when a statement is rejected
SaveTxn(db, d, fk) ==
    LET up == Upsert(db, d, fk)
        r  == IF up.ok
              THEN InsertImages([ok |-> TRUE, db |-> DeleteImagesWhere(up.db, d.id)],
                                d.images, 1, d.id)
              ELSE up
    IN IF r.ok THEN r ELSE [ok |-> FALSE, db |-> db]

\* ------------------------------------------------------------ the handlers
ReqURLs == {"http://a", "http://b", "ftp://a", "%zz"}
Tasks == 1..Len(req.urls)

\* url.Parse and the scheme test at the head of Scrape
URLParses(u) == u # "%zz"
Scheme(u) ==
    CASE u \in {"http://a", "http://b"} -> "http"
      [] u = "ftp://a" -> "ftp"
      [] OTHER -> ""
ValidateURL(u) ==
    IF ~URLParses(u) THEN "invalid URL"
    ELSE IF Scheme(u) # "http" /\ Scheme(u) # "https" THEN "URL must be http or https"
    ELSE "ok"

\* number of <img src> elements of the page behind a URL
PageImageCount(u) == IF u = "http://a" THEN MaxImages ELSE 0

\* processImages assigns uuid.New() to each image only when analysis is on
NewImages(u, first, enabled) ==
    [k \in 1..PageImageCount(u) |-> [id |-> IF enabled THEN first + k ELSE NoID]]

ZeroResult == [url |-> "", success |-> FALSE, data |-> Nil, error |-> "", cached |-> FALSE]
Failure(u, e) == [url |-> u, success |-> FALSE, data |-> Nil, error |-> e, cached |-> FALSE]
Success(u, d, c) == [url |-> u, success |-> TRUE, data |-> d, error |-> "", cached |-> c]

\* respondJSON / respondError of handleScrape for the outcome of its one URL
SingleResponse(res) ==
    IF res.success THEN [status |-> 200, body |-> res.data, error |-> ""]
    ELSE [status |-> 500, body |-> Nil, error |-> res.error]

\* results appended in completion order instead of stored by index
Finish_completionOrder(i, res, how) ==
    /\ item' = [item EXCEPT ![i] = [pc |-> "done", save |-> how]]
    /\ IF mode = "batch"
       THEN /\ LET free == {j \in Tasks : results[j] = ZeroResult}
                   slot == CHOOSE j \in free : \A k \in free : j <= k
               IN results' = [results EXCEPT ![slot] = res]
            /\ UNCHANGED <<resp, srv>>
       ELSE /\ resp' = SingleResponse(res)
            /\ srv' = "done"
            /\ UNCHANGED results

\* a failed task cancels the tasks still running (first error wins)
Finish_cancelSiblings(i, res, how) ==
    IF mode = "batch" /\ ~res.success
    THEN /\ item' = [j \in Tasks |->
                        IF j = i \/ item[j].pc # "done"
                        THEN [pc |-> "done", save |-> IF j = i THEN how ELSE "none"]
                        ELSE item[j]]
         /\ results' = [j \in Tasks |->
                        IF j = i THEN res
                        ELSE IF item[j].pc # "done"
                             THEN Failure(req.urls[j], "context canceled")
                             ELSE results[j]]
         /\ UNCHANGED <<resp, srv>>
    ELSE /\ item' = [item EXCEPT ![i] = [pc |-> "done", save |-> how]]
         /\ IF mode = "batch"
            THEN /\ results' = [results EXCEPT ![i] = res]
                 /\ UNCHANGED <<resp, srv>>
            ELSE /\ resp' = SingleResponse(res)
                 /\ srv' = "done"
                 /\ UNCHANGED results

\* the task of URL i ends with result res: the batch goroutine stores it in
\* results[index] and calls wg.Done(); handleScrape writes the response
Finish(i, res, how) ==
    /\ item' = [item EXCEPT ![i] = [pc |-> "done", save |-> how]]
    /\ IF mode = "batch"
       THEN /\ results' = [results EXCEPT ![i] = res]
            /\ UNCHANGED <<resp, srv>>
       ELSE /\ resp' = SingleResponse(res)
            /\ srv' = "done"
            /\ UNCHANGED results

\* handleScrape, up to the cache lookup: the required-field check
HandleScrape ==
    /\ srv = "recv" /\ mode = "single"
    /\ IF req.urls[1] = ""
       THEN /\ resp' = [status |-> 400, body |-> Nil, error |-> "url is required"]
            /\ srv' = "done"
            /\ UNCHANGED item
       ELSE /\ srv' = "run"
            /\ item' = [i \in Tasks |-> [pc |-> "enter", save |-> "none"]]
            /\ UNCHANGED resp
    /\ UNCHANGED <<scraped_data, images, dbvars, mode, req, results, io, uuids, analysis, scorevars, scrapevars, fnvars>>

\* "if len(req.URLs) > 50"
BatchLimit == 50

\* handleBatchScrape, up to the fan-out: size checks, then one goroutine per URL
HandleBatchScrape ==
    /\ srv = "recv" /\ mode = "batch"
    /\ IF Len(req.urls) = 0
       THEN /\ resp' = [status |-> 400, body |-> Nil, error |-> "urls array is required"]
            /\ srv' = "done"
            /\ UNCHANGED <<item, results>>
       ELSE IF Len(req.urls) > BatchLimit
       THEN /\ resp' = [status |-> 400, body |-> Nil, error |-> "maximum 50 URLs per batch"]
            /\ srv' = "done"
            /\ UNCHANGED <<item, results>>
       ELSE /\ srv' = "run"
            /\ results' = [i \in Tasks |-> ZeroResult]
            /\ item' = [i \in Tasks |-> [pc |-> "enter", save |-> "none"]]
            /\ UNCHANGED resp
    /\ UNCHANGED <<scraped_data, images, dbvars, mode, req, io, uuids, analysis, scorevars, scrapevars, fnvars>>

\* "if !req.Force" / "if !force": whether the store is consulted first
UseCache_always(force) == TRUE
UseCache(force) == ~force

\* a failed lookup ends the task in both paths
LookupErrorFails_both(m) == TRUE

\* whether an error of GetByURL ends the task: handleScrape answers 500,
\* processSingleURL tests err == nil && existing != nil and goes on
LookupErrorFails(m) == m = "single"

\* the cache lookup of handleScrape / processSingleURL, then the URL
\* validation at the head of Scrape
Enter(i) ==
    /\ srv = "run" /\ item[i].pc = "enter"
    /\ LET u == req.urls[i]
           v == ValidateURL(u)
           Miss == /\ IF v = "ok"
                      THEN /\ item' = [item EXCEPT ![i].pc = "fetch"]
                           /\ UNCHANGED <<results, resp, srv>>
                      ELSE Finish(i, Failure(u, v), "none")
       IN IF ~UseCache(req.force)
          THEN Miss /\ UNCHANGED io
          ELSE \E fault \in BOOLEAN :
                 /\ io' = [io EXCEPT ![i] = @ \cup {"store_read"} \cup
                                           (IF fault THEN {"store_read_failed"} ELSE {})]
                 /\ LET existing == GetByURL(Committed, u)
                    IN IF fault
                       THEN IF LookupErrorFails(mode)
                            THEN Finish(i, Failure(u, "database error"), "none")
                            ELSE Miss
                       ELSE IF existing # Nil
                            THEN Finish(i, Success(u, [existing EXCEPT !.cached = TRUE], TRUE),
                                        "none")
                            ELSE Miss
    /\ UNCHANGED <<scraped_data, images, dbvars, mode, req, uuids, analysis, scorevars, scrapevars, fnvars>>

\* Scrape: the GET of the page and html.Parse of its body
Fetch(i) ==
    /\ srv = "run" /\ item[i].pc = "fetch"
    /\ io' = [io EXCEPT ![i] = @ \cup {"fetch"}]
    /\ \E out \in {"ok", "failed to fetch URL", "HTTP error", "failed to parse HTML"} :
         IF out = "ok"
         THEN /\ item' = [item EXCEPT ![i].pc = "augment"]
              /\ UNCHANGED <<results, resp, srv>>
         ELSE Finish(i, Failure(req.urls[i], out), "none")
    /\ UNCHANGED <<scraped_data, images, dbvars, mode, req, uuids, analysis, scorevars, scrapevars, fnvars>>

\* a failed save reported to the caller instead of the record
AfterSave_propagate(u, rec, saveFailed) ==
    IF saveFailed THEN Failure(u, "failed to save data") ELSE Success(u, rec, FALSE)

\* what the handler reports once SaveScrapedData has returned: the error is
\* logged and the record is returned either way
AfterSave(u, rec, saveFailed) == Success(u, rec, FALSE)

\* Scrape after parsing (the AI calls and the image pipeline never fail it),
\* then SaveScrapedData, whose error is only logged
Augment(i) ==
    /\ srv = "run" /\ item[i].pc = "augment"
    /\ io' = [io EXCEPT ![i] = @ \cup {"ai", "store_write"}]
    /\ \E c \in Contents, fk \in BOOLEAN, fault \in BOOLEAN :
         LET u   == req.urls[i]
             n   == PageImageCount(u)
             rec == [id |-> uuids + n + 1, url |-> u, content |-> c,
                     images |-> NewImages(u, uuids, analysis), cached |-> FALSE]
             r   == SaveTxn(Committed, rec, fk)
         IN /\ uuids' = uuids + n + 1
            /\ IF fault \/ ~r.ok
               THEN /\ UNCHANGED <<scraped_data, images>>
                    /\ Finish(i, AfterSave(u, rec, TRUE),
                              IF fault THEN "fault" ELSE "rejected")
               ELSE /\ scraped_data' = r.db.scraped_data
                    /\ images' = r.db.images
                    /\ Finish(i, AfterSave(u, rec, FALSE), "ok")
    /\ UNCHANGED <<dbvars, mode, req, analysis, scorevars, scrapevars, fnvars>>

\* BatchSummary computed from the results slice
Summary ==
    [total   |-> Len(results),
     success |-> Cardinality({i \in Tasks : results[i].success}),
     failed  |-> Cardinality({i \in Tasks : ~results[i].success}),
     cached  |-> Cardinality({i \in Tasks : results[i].success /\ results[i].cached}),
     scraped |-> Cardinality({i \in Tasks : results[i].success /\ ~results[i].cached})]

\* the handler goes on as soon as one task has finished
WaitDone_first == \E i \in Tasks : item[i].pc = "done"

\* wg.Wait(): every goroutine has called wg.Done()
WaitDone == \A i \in Tasks : item[i].pc = "done"

\* handleBatchScrape after wg.Wait(): summary and response
Respond ==
    /\ srv = "run" /\ mode = "batch"
    /\ WaitDone
    /\ resp' = [status |-> 200, body |-> [results |-> results, summary |-> Summary],
                error |-> ""]
    /\ srv' = "done"
    /\ UNCHANGED <<scraped_data, images, dbvars, mode, req, item, results, io, uuids, analysis, scorevars, scrapevars, fnvars>>

\* the record an earlier request for http://a has left in the store
StoredRecord(enabled) ==
    [id |-> MaxImages + 1, url |-> "http://a", content |-> "ai",
     images |-> NewImages("http://a", 0, enabled), cached |-> FALSE]

SrvOff ==
    /\ srv = "off" /\ mode = "off" /\ req = [urls |-> <<>>, force |-> FALSE]
    /\ item = <<>> /\ results = <<>> /\ resp = Nil /\ io = <<>>
    /\ uuids = 0 /\ analysis = TRUE

ScoreOff == sin = Nil /\ evals = <<>>
ScrapeOff == sc = <<>> /\ cancelled = <<>> /\ parentCancelled = FALSE
FnOff == fin = Nil /\ fout = Nil

InitSrv ==
    /\ tx = [p \in Writers |-> IdleTx]
    /\ ret = [p \in Writers |-> "none"]
    /\ writer = 0
    /\ lastCall = [kind |-> "none"]
    /\ analysis \in BOOLEAN
    /\ \E stored \in BOOLEAN :
         LET db == IF stored THEN SaveTxn(EmptyDB, StoredRecord(analysis), TRUE).db
                   ELSE EmptyDB
         IN /\ scraped_data = db.scraped_data
            /\ images = db.images
            /\ uuids = IF stored THEN MaxImages + 1 ELSE 0
    /\ mode \in {"single", "batch"}
    /\ req \in [urls : IF mode = "single" THEN {<<u>> : u \in ReqURLs \cup {""}}
                       ELSE SeqsUpTo(ReqURLs, MaxBatch)
                            \cup {[k \in 1..(BatchLimit + 1) |-> "http://a"]},
                force : BOOLEAN]
    /\ srv = "recv"
    /\ item = [i \in Tasks |-> [pc |-> "wait", save |-> "none"]]
    /\ results = <<>>
    /\ resp = Nil
    /\ io = [i \in Tasks |-> {}]
    /\ ScoreOff
    /\ ScrapeOff
    /\ FnOff

NextSrv ==
    \/ HandleScrape
    \/ HandleBatchScrape
    \/ \E i \in Tasks : Enter(i)
    \/ \E i \in Tasks : Fetch(i)
    \/ \E i \in Tasks : Augment(i)
    \/ Respond

SpecSrv == InitSrv /\ [][NextSrv]_vars

\* ------------------------------------------------- scoreContentFallback
\* A URL is the sequence of the substrings of interest it contains; title
\* and content are given by what the scorer measures of them.
URLParts == {"example.com", "Facebook.com", "reddit.com", "casino", "betting",
             ".edu", "github"}
ToLower(part) == IF part = "Facebook.com" THEN "facebook.com" ELSE part
\* strings.Contains on one part: equal, or a proper substring of it
PartContains(part, needle) ==
    \/ part = needle
    \/ <<part, needle>> \in {<<"betting", "bet">>}
Contains(parts, needle) == \E k \in 1..Len(parts) : PartContains(parts[k], needle)
LowerURL(parts) == [k \in 1..Len(parts) |-> ToLower(parts[k])]

\* the map literal blockedDomains
blockedDomains ==
    {<<"facebook.com", "social_media">>, <<"twitter.com", "social_media">>,
     <<"x.com", "social_media">>, <<"instagram.com", "social_media">>,
     <<"tiktok.com", "social_media">>, <<"reddit.com", "forum">>,
     <<"linkedin.com", "social_media">>, <<"pinterest.com", "social_media">>,
     <<"snapchat.com", "social_media">>, <<"bet", "gambling">>,
     <<"casino", "gambling">>, <<"poker", "gambling">>, <<"betting", "gambling">>,
     <<"xxx", "adult_content">>, <<"porn", "adult_content">>,
     <<"adult", "adult_content">>, <<"cannabis", "drugs">>, <<"weed", "drugs">>,
     <<"ebay.com", "marketplace">>, <<"amazon.com", "marketplace">>,
     <<"craigslist.org", "marketplace">>}
qualityDomains == <<".edu", ".gov", ".org", "wikipedia", "arxiv", "github", "stackoverflow">>
technicalKeywords ==
    <<"documentation", "tutorial", "guide", "research", "study", "analysis", "technical">>

\* one rule's effect on the running result
Apply(r, delta, reasons, cats, inds) ==
    [score |-> r.score + delta, reasons |-> r.reasons \o reasons,
     categories |-> r.categories \o cats, indicators |-> r.indicators \o inds]

Clamp(x) == IF x < 0 THEN 0 ELSE IF x > 10 THEN 10 ELSE x

\* the entries of qualityDomains found in the URL, and of technicalKeywords
\* found in the title or the content
QualityHits(url) ==
    Cardinality({k \in 1..Len(qualityDomains) : Contains(url, qualityDomains[k])})
TechnicalHits(title, content) ==
    Cardinality({k \in 1..Len(technicalKeywords) :
                    technicalKeywords[k] \in title.keywords \cup content.keywords})

\* the loop goes on after a match
Applications_noBreak(hits) == hits

\* how often a loop that breaks on its first match applies its rule
Applications(hits) == IF hits > 0 THEN 1 ELSE 0

\* a rule applied n times in a row
RECURSIVE ApplyTimes(_, _, _, _, _)
ApplyTimes(r, n, delta, reasons, cats) ==
    IF n = 0 THEN r
    ELSE ApplyTimes(Apply(r, delta, reasons, cats, <<>>), n - 1, delta, reasons, cats)

\* the threshold sits at the neutral score
DefaultCategories_atNeutral(score) ==
    IF score >= 5 THEN <<"informational">> ELSE <<"general">>

\* the category list given when no rule has set a category
DefaultCategories(score) ==
    IF score >= 6 THEN <<"informational">> ELSE <<"general">>

\* the rules after the block list; scores in tenths
ScoreRules(url, title, content) ==
    LET r0 == [score |-> 5, reasons |-> <<>>, categories |-> <<>>, indicators |-> <<>>]
        r1 == IF content.len < 100
              THEN Apply(r0, -3, <<"Very short content">>, <<"low_quality">>, <<>>)
              ELSE IF content.len < 500
              THEN Apply(r0, -1, <<"Short content">>, <<>>, <<>>)
              ELSE IF content.len > 1000
              THEN Apply(r0, 2, <<"Substantial content">>, <<"informational">>, <<>>)
              ELSE r0
        r2 == IF content.words < 20
              THEN Apply(r1, -2, <<>>, <<"minimal_content">>, <<>>)
              ELSE r1
        r3 == IF content.clickHere > 2 \/ content.buyNow > 2 \/ content.limitedOffer > 1
              THEN Apply(r2, -3, <<"Spam indicators detected">>, <<"spam">>, <<"spam_keywords">>)
              ELSE r2
        r4 == IF content.excl > content.words \div 10 /\ content.excl > 5
              THEN Apply(r3, -2, <<"Excessive punctuation">>, <<>>, <<>>)
              ELSE r3
        r5 == ApplyTimes(r4, Applications(QualityHits(url)), 3,
                         <<"Quality domain detected">>,
                         <<"reference", "trusted_source">>)
        r6 == ApplyTimes(r5, Applications(TechnicalHits(title, content)), 1,
                         <<>>, <<"technical", "educational">>)
        final == Clamp(r6.score)
    IN [score |-> final,
        reason |-> IF r6.reasons = <<>>
                   THEN [prefix |-> "Rule-based assessment (Ollama unavailable)", parts |-> <<>>]
                   ELSE [prefix |-> "Rule-based: ", parts |-> r6.reasons],
        categories |-> IF r6.categories = <<>>
                       THEN DefaultCategories(final)
                       ELSE r6.categories,
        indicators |-> r6.indicators]

\* the return from inside the range over blockedDomains, for entry e
Blocked(e) ==
    [score |-> 1,
     reason |-> [prefix |-> "", parts |-> <<"Blocked content type detected: " \o e[2]>>],
     categories |-> <<e[2], "low_quality">>,
     indicators |-> <<e[2]>>]

\* the entry "range blockedDomains" meets first is any of the matching ones
FirstMatch(matches) == matches

\* the values one call of scoreContentFallback may return
scoreContentFallback(url, title, content) ==
    LET urlLower == LowerURL(url)
        matches  == {e \in blockedDomains : Contains(urlLower, e[1])}
    IN IF matches # {}
       THEN {Blocked(e) : e \in FirstMatch(matches)}
       ELSE {ScoreRules(urlLower, title, content)}

ScoredURLs == SeqsUpTo(URLParts, MaxURLParts) \ {<<>>}
ScoredTitles == [keywords : {{}, {"guide"}}]
ScoredContents ==
    {c \in [len : {50, 400, 700, 1200}, words : {5, 40, 180}, clickHere : {0, 3},
            buyNow : {0}, limitedOffer : {0, 2}, excl : {0, 6},
            keywords : {{}, {"study", "analysis"}}] :
        \* every word takes a character and a separator, every phrase its words
        /\ c.len >= 2 * c.words - 1
        /\ c.words >= 2 * (c.clickHere + c.buyNow + c.limitedOffer) + Cardinality(c.keywords)
        /\ c.len >= c.excl}

Evaluate ==
    /\ sin # Nil
    /\ Len(evals) < MaxEvals
    /\ \E out \in scoreContentFallback(sin.url, sin.title, sin.content) :
         evals' = Append(evals, out)
    /\ UNCHANGED <<scraped_data, images, dbvars, srvvars, sin, scrapevars, fnvars>>

InitScore ==
    /\ scraped_data = {} /\ images = {}
    /\ tx = [p \in Writers |-> IdleTx]
    /\ ret = [p \in Writers |-> "none"]
    /\ writer = 0
    /\ lastCall = [kind |-> "none"]
    /\ SrvOff
    /\ sin \in [url : ScoredURLs, title : ScoredTitles, content : ScoredContents]
    /\ evals = <<>>
    /\ ScrapeOff
    /\ FnOff

NextScore == Evaluate

SpecScore == InitScore /\ [][NextScore]_vars

\* ------------------------------------------------------ Scrape, call by call
Callers == {1, 2}
Statuses == {200, 204, 404}
AIOps == {"clean", "links", "image", "score"}

\* context.WithTimeout(ctx, 10*time.Minute) in processSingleURL: a child of
\* the request context, one per task
CtxDone_shared(i) == parentCancelled \/ \E j \in Callers : cancelled[j]
CtxDone(i) == parentCancelled \/ cancelled[i]

\* the outcomes of an HTTP call made with
\* http.NewRequestWithContext(ctx, ...): TRUE for a response, FALSE for an error
CallOutcomes(done) == IF done THEN {FALSE} ELSE {TRUE, FALSE}

\* ollamaClient.ScoreContent(ctx, url, title, content): a result, or an error
ScoreContentOutcomes(done) == IF done THEN {FALSE} ELSE {TRUE, FALSE}

\* resp.StatusCode != http.StatusOK, the test after the page fetch of
\* Scrape, ExtractLinks and ScoreLinkContent
StatusRejected(status) == status # 200
PageFetchers == {"Scrape", "ExtractLinks", "ScoreLinkContent"}

\* the page fetch of one of them answered with a status: the error it
\* returns, or "" when it goes on to html.Parse
FetchStatus(status) == IF StatusRejected(status) THEN "HTTP error" ELSE ""

\* extractImages: the number of <img src> elements found on the page
ExtractedImages(u) == IF u = "http://a" THEN MaxPageImages ELSE 0

\* whether the page behind a URL has <a href> elements
PageHasLinks(u) == u = "http://a"

\* what the image server can answer: Do fails or not, the status, the
\* advertised Content-Length (-1 when absent), the number of bytes resp.Body
\* delivers, and whether reading it ends in an error instead of EOF
ImageResponses ==
    [doErr : BOOLEAN, status : Statuses,
     contentLength : -1..(MaxImageSizeBytes + 1),
     body : 0..(MaxImageSizeBytes + 1), readErr : BOOLEAN]

Min(a, b) == IF a < b THEN a ELSE b

\* the advertised length is the only size check
downloadImage_trustHeader(done, r) ==
    IF done \/ r.doErr THEN [err |-> "failed to fetch image", len |-> 0]
    ELSE IF r.status # 200 THEN [err |-> "HTTP error", len |-> 0]
    ELSE IF r.contentLength > MaxImageSizeBytes
         THEN [err |-> "image too large", len |-> 0]
    ELSE IF r.readErr THEN [err |-> "failed to read image data", len |-> 0]
    ELSE [err |-> "", len |-> r.body]

\* downloadImage: the error text, or "" and the number of bytes returned
downloadImage(done, r) ==
    LET read == Min(r.body, MaxImageSizeBytes + 1)
    IN IF done \/ r.doErr THEN [err |-> "failed to fetch image", len |-> 0]
       ELSE IF r.status # 200 THEN [err |-> "HTTP error", len |-> 0]
       ELSE IF r.contentLength > MaxImageSizeBytes
            THEN [err |-> "image too large", len |-> 0]
       ELSE IF r.readErr /\ r.body < MaxImageSizeBytes + 1
            THEN [err |-> "failed to read image data", len |-> 0]
       ELSE IF read > MaxImageSizeBytes
            THEN [err |-> "image too large: exceeds", len |-> 0]
       ELSE [err |-> "", len |-> read]

\* time, in ticks: the timeouts of a Config, how long a transfer takes, and
\* when the caller's context is cancelled (Never: it is not)
Never == 0
Timeouts == 1..MaxTimeout
Configs == [HTTPTimeout : Timeouts, ImageTimeout : Timeouts]

\* New: the one http.Client of the scraper, with Timeout = config.HTTPTimeout;
\* it ends every request made through Do, reading the body included
ClientTimeout(config) == config.HTTPTimeout

\* downloadImage: context.WithTimeout(ctx, config.ImageTimeout), then
\* s.httpClient.Do(req) and io.ReadAll(resp.Body); the tick at which a
\* transfer still running is aborted
AbortTick(config, cancelAt) ==
    LET t == Min(config.ImageTimeout, ClientTimeout(config))
    IN IF cancelAt # Never THEN Min(t, cancelAt) ELSE t

\* a download whose transfer needs `takes` ticks
TimedDownload(config, takes, cancelAt) ==
    IF takes >= AbortTick(config, cancelAt)
    THEN [aborted |-> TRUE, at |-> AbortTick(config, cancelAt)]
    ELSE [aborted |-> FALSE, at |-> takes]

ScrapeStart(u) ==
    [pc |-> "validate", url |-> u, content |-> "", imgs |-> <<>>, links |-> "",
     fb |-> {}, err |-> "", data |-> Nil, saved |-> Nil, result |-> Nil]

\* a context that is done makes the handler report its error
HandlerResult_ctxErr(done, scr, saveFailed) ==
    IF scr.pc = "failed" THEN Failure(scr.url, scr.err)
    ELSE IF done THEN Failure(scr.url, "context canceled")
    ELSE AfterSave(scr.url, scr.data, saveFailed)

\* what handleScrape / processSingleURL make of Scrape's return values
HandlerResult(done, scr, saveFailed) ==
    IF scr.pc = "failed" THEN Failure(scr.url, scr.err)
    ELSE AfterSave(scr.url, scr.data, saveFailed)

\* Scrape returns as scr; the handler, in the same goroutine, reports an
\* error as the failure, else calls SaveScrapedData(result), which takes no
\* context, and reports the record
Return(i, scr) ==
    \E saveFailed \in BOOLEAN :
        sc' = [sc EXCEPT ![i] =
                 [scr EXCEPT !.result = HandlerResult(CtxDone(i), scr, saveFailed),
                             !.saved = IF scr.pc = "ok" THEN scr.data ELSE Nil]]

Fail(i, e) == Return(i, [sc[i] EXCEPT !.pc = "failed", !.err = e])
ScrapeFrame == UNCHANGED <<scraped_data, images, dbvars, srvvars, scorevars, fnvars,
                           cancelled, parentCancelled>>

\* url.Parse and the scheme test
ScValidate(i) ==
    /\ sc[i].pc = "validate"
    /\ IF ValidateURL(sc[i].url) = "ok"
       THEN sc' = [sc EXCEPT ![i].pc = "fetch"]
       ELSE Fail(i, ValidateURL(sc[i].url))
    /\ ScrapeFrame

\* s.httpClient.Do(req) and the status test
ScFetch(i) ==
    /\ sc[i].pc = "fetch"
    /\ \E ok \in CallOutcomes(CtxDone(i)), status \in Statuses :
         IF ~ok THEN Fail(i, "failed to fetch URL")
         ELSE IF StatusRejected(status) THEN Fail(i, "HTTP error")
         ELSE sc' = [sc EXCEPT ![i].pc = "parse"]
    /\ ScrapeFrame

\* html.Parse(resp.Body): reads the body of the response
ScParse(i) ==
    /\ sc[i].pc = "parse"
    /\ \E ok \in CallOutcomes(CtxDone(i)) :
         IF ok THEN sc' = [sc EXCEPT ![i].pc = "clean"]
         ELSE Fail(i, "failed to parse HTML")
    /\ ScrapeFrame

\* where processImages stands once image k - 1 is finished
AfterImage(u, k) ==
    IF analysis /\ k <= ExtractedImages(u) THEN "download" ELSE "links"

\* ollamaClient.ExtractContent, falling back to the raw text; then the
\* images as extractImages returns them
ScClean(i) ==
    /\ sc[i].pc = "clean"
    /\ \E ok \in CallOutcomes(CtxDone(i)) :
         sc' = [sc EXCEPT ![i].pc = AfterImage(sc[i].url, 1),
                          ![i].content = IF ok THEN "ai" ELSE "raw",
                          ![i].fb = IF ok THEN @ ELSE @ \cup {"clean"},
                          ![i].imgs = IF analysis THEN <<>>
                                      ELSE [k \in 1..ExtractedImages(sc[i].url) |->
                                              [src |-> k, hasID |-> FALSE,
                                               payload |-> FALSE,
                                               analyzed |-> FALSE]]]
    /\ ScrapeFrame

\* a failed download ends the loop over the images
ScDownload_abort(i) ==
    /\ sc[i].pc = "download"
    /\ \E ok \in {downloadImage(CtxDone(i), r).err = "" : r \in ImageResponses} :
         IF ok
         THEN sc' = [sc EXCEPT ![i].pc = "analyze"]
         ELSE sc' = [sc EXCEPT ![i].pc = "links"]
    /\ ScrapeFrame

\* processImages: uuid for the image, then downloadImage under
\* WithTimeout(ctx, ImageTimeout); a failed download keeps the bare entry
ScDownload(i) ==
    /\ sc[i].pc = "download"
    /\ \E ok \in {downloadImage(CtxDone(i), r).err = "" : r \in ImageResponses} :
         IF ok
         THEN sc' = [sc EXCEPT ![i].pc = "analyze"]
         ELSE sc' = [sc EXCEPT
                ![i].imgs = Append(@, [src |-> Len(@) + 1, hasID |-> TRUE,
                                       payload |-> FALSE, analyzed |-> FALSE]),
                ![i].pc = AfterImage(sc[i].url, Len(sc[i].imgs) + 2)]
    /\ ScrapeFrame

\* processImages: ollamaClient.AnalyzeImage on the downloaded bytes
ScAnalyze(i) ==
    /\ sc[i].pc = "analyze"
    /\ \E ok \in CallOutcomes(CtxDone(i)) :
         sc' = [sc EXCEPT
                ![i].imgs = Append(@, [src |-> Len(@) + 1, hasID |-> TRUE,
                                       payload |-> TRUE, analyzed |-> ok]),
                ![i].fb = IF ok THEN @ ELSE @ \cup {"image"},
                ![i].pc = AfterImage(sc[i].url, Len(sc[i].imgs) + 2)]
    /\ ScrapeFrame

\* extractLinksWithOllama: no call for a page without links; the raw list
\* when the call fails or its answer is not a JSON list
ScLinks(i) ==
    /\ sc[i].pc = "links"
    /\ IF ~PageHasLinks(sc[i].url)
       THEN sc' = [sc EXCEPT ![i].pc = "score", ![i].links = "none"]
       ELSE \E ok \in CallOutcomes(CtxDone(i)), parses \in BOOLEAN :
              sc' = [sc EXCEPT ![i].pc = "score",
                               ![i].links = IF ok /\ parses THEN "filtered" ELSE "raw",
                               ![i].fb = IF ok /\ parses THEN @ ELSE @ \cup {"links"}]
    /\ ScrapeFrame

\* a failed ScoreContent returned to the caller as Scrape's error
ScScore_propagate(i) ==
    /\ sc[i].pc = "score"
    /\ \E ok \in ScoreContentOutcomes(CtxDone(i)) :
         IF ok
         THEN Return(i, [sc[i] EXCEPT
                           !.pc = "ok",
                           !.data = [url |-> sc[i].url, content |-> sc[i].content,
                                     images |-> sc[i].imgs, links |-> sc[i].links,
                                     aiUsed |-> TRUE, cached |-> FALSE]])
         ELSE Fail(i, "failed to score content")
    /\ ScrapeFrame

\* ollamaClient.ScoreContent with the rule-based fallback, then the record
ScScore(i) ==
    /\ sc[i].pc = "score"
    /\ \E ok \in ScoreContentOutcomes(CtxDone(i)) :
         Return(i, [sc[i] EXCEPT
                      !.pc = "ok",
                      !.fb = IF ok THEN @ ELSE @ \cup {"score"},
                      !.data = [url |-> sc[i].url, content |-> sc[i].content,
                                images |-> sc[i].imgs, links |-> sc[i].links,
                                aiUsed |-> ok, cached |-> FALSE]])
    /\ ScrapeFrame

\* the deadline of task i's scrapeCtx passes while its Scrape is running
CancelTask(i) ==
    /\ sc[i].pc \notin {"ok", "failed"}
    /\ ~cancelled[i]
    /\ cancelled' = [cancelled EXCEPT ![i] = TRUE]
    /\ UNCHANGED <<scraped_data, images, dbvars, srvvars, scorevars, fnvars, sc, parentCancelled>>

\* the client goes away: r.Context() is cancelled
CancelRequest ==
    /\ ~parentCancelled
    /\ \E i \in Callers : sc[i].pc \notin {"ok", "failed"}
    /\ parentCancelled' = TRUE
    /\ UNCHANGED <<scraped_data, images, dbvars, srvvars, scorevars, fnvars, sc, cancelled>>

InitScrape ==
    /\ scraped_data = {} /\ images = {}
    /\ tx = [p \in Writers |-> IdleTx]
    /\ ret = [p \in Writers |-> "none"]
    /\ writer = 0
    /\ lastCall = [kind |-> "none"]
    /\ srv = "off" /\ mode = "off" /\ req = [urls |-> <<>>, force |-> FALSE]
    /\ item = <<>> /\ results = <<>> /\ resp = Nil /\ io = <<>>
    /\ uuids = 0 /\ analysis \in BOOLEAN
    /\ ScoreOff
    /\ sc \in [Callers -> {ScrapeStart(u) : u \in ReqURLs}]
    /\ cancelled = [i \in Callers |-> FALSE]
    /\ parentCancelled = FALSE
    /\ FnOff

NextScrape ==
    \/ \E i \in Callers : ScValidate(i)
    \/ \E i \in Callers : ScFetch(i)
    \/ \E i \in Callers : ScParse(i)
    \/ \E i \in Callers : ScClean(i)
    \/ \E i \in Callers : ScDownload(i)
    \/ \E i \in Callers : ScAnalyze(i)
    \/ \E i \in Callers : ScLinks(i)
    \/ \E i \in Callers : ScScore(i)
    \/ \E i \in Callers : CancelTask(i)
    \/ CancelRequest

SpecScrape == InitScrape /\ [][NextScrape]_vars

\* ------------------------------------------------------------ single calls
\* The text an AI call returns, by what encoding/json makes of it: text that
\* is not JSON, the JSON values null, a string, a number, an object with
\* its "summary" and "tags" members, or an array of strings and numbers
\* ("#" stands for a number).
Members == {"absent", "ok", "wrongType"}
Elems == {"l1", "l2", "x", "#"}
JSONTexts ==
    {[k |-> kind] : kind \in {"empty", "garbage", "null", "string", "number"}}
    \cup [k : {"object"}, summary : Members, tags : Members, fenced : BOOLEAN]
    \cup [k : {"array"}, elems : SeqsUpTo(Elems, 2), fenced : BOOLEAN]

\* Generate / GenerateWithVision: an error, or the model's response text
Generations == [err : BOOLEAN, text : JSONTexts]

\* stripMarkdownCodeBlocks: the text without its ```json fence
stripMarkdownCodeBlocks(t) ==
    IF t.k \in {"object", "array"} THEN [t EXCEPT !.fenced = FALSE] ELSE t

\* json.Unmarshal into struct{Summary string; Tags []string}: whether it
\* returns an error
UnmarshalAnalysisFails(t) ==
    CASE t.k \in {"empty", "garbage", "string", "number", "array"} -> TRUE
      [] t.k = "null" -> FALSE
      [] t.k = "object" -> t.fenced \/ t.summary = "wrongType" \/ t.tags = "wrongType"

\* Client.AnalyzeImage: summary is "" (empty), "summary" (the decoded
\* member) or "response" (the response text itself)
AnalyzeImage(done, g) ==
    LET t == stripMarkdownCodeBlocks(g.text)
    IN IF done \/ g.err THEN [err |-> TRUE, summary |-> "", tags |-> FALSE]
       ELSE IF UnmarshalAnalysisFails(t)
            THEN [err |-> FALSE,
                  summary |-> IF t.k = "empty" THEN "" ELSE "response",
                  tags |-> FALSE]
       ELSE IF t.k = "null" THEN [err |-> FALSE, summary |-> "", tags |-> FALSE]
       ELSE [err |-> FALSE,
             summary |-> IF t.summary = "ok" THEN "summary" ELSE "",
             tags |-> t.tags = "ok"]

\* processImages for an image whose download succeeded: the entry it appends
AnalyzedEntry(a) ==
    IF a.err THEN [payload |-> TRUE, summary |-> "", tags |-> FALSE]
    ELSE [payload |-> TRUE, summary |-> a.summary, tags |-> a.tags]

\* json.Unmarshal into []string: an error, or the decoded list
UnmarshalLinks(t) ==
    CASE t.k \in {"empty", "garbage", "string", "number", "object"} ->
            [err |-> TRUE, val |-> <<>>]
      [] t.k = "null" -> [err |-> FALSE, val |-> <<>>]
      [] t.k = "array" ->
            IF t.fenced \/ "#" \in Range(t.elems) THEN [err |-> TRUE, val |-> <<>>]
            ELSE [err |-> FALSE, val |-> t.elems]

RawLinkLists == {<<>>, <<"l1">>, <<"l1", "l2">>}

\* extractLinksWithOllama on the links extractLinks found
extractLinksWithOllama(allLinks, done, g) ==
    IF Len(allLinks) = 0 THEN allLinks
    ELSE IF done \/ g.err THEN allLinks
    ELSE IF UnmarshalLinks(g.text).err THEN allLinks
    ELSE UnmarshalLinks(g.text).val

\* the <title> elements of a parsed document in document order, each by the
\* Data of its first child (NoChild for an empty element)
NoChild == "<none>"
TitleTexts == {NoChild, " ", " A ", "B"}
Documents == SeqsUpTo(TitleTexts, MaxTitles)

\* strings.TrimSpace
TrimSpace(t) ==
    CASE t = " " -> ""
      [] t = " A " -> "A"
      [] OTHER -> t

\* extractTitle: the walk assigns title at every <title> element that has a
\* child; its return leaves that element only, and the walk goes on
RECURSIVE WalkTitles(_, _)
WalkTitles(doc, title) ==
    IF doc = <<>> THEN title
    ELSE WalkTitles(Tail(doc), IF Head(doc) # NoChild THEN Head(doc) ELSE title)
extractTitle(doc) == TrimSpace(WalkTitles(doc, ""))

\* Scrape: the title, or the target URL for an empty one
TitleOf(doc, targetURL) ==
    IF extractTitle(doc) = "" THEN targetURL ELSE extractTitle(doc)

\* tags as stored with images and as given in a query; strings.ToLower and
\* strings.Contains on them
StoredTags == {"Wildcat", "animal", "cat"}
QueryTags == {"CAT", "dog", "wildcat", ""}
ToLowerTag(t) ==
    CASE t = "Wildcat" -> "wildcat"
      [] t = "CAT" -> "cat"
      [] OTHER -> t
\* strings.Contains(s, substr) on lower-cased tags
ContainsTag(str, substr) ==
    \/ substr = "" \/ substr = str
    \/ str = "wildcat" /\ substr = "cat"

\* the match holds only when the stored tag contains the query tag
TagsMatch_oneWay(searchTag, tag) ==
    ContainsTag(ToLowerTag(tag), ToLowerTag(searchTag))

\* the test in the inner loop of SearchImagesByTags
TagsMatch(searchTag, tag) ==
    \/ ContainsTag(ToLowerTag(tag), ToLowerTag(searchTag))
    \/ ContainsTag(ToLowerTag(searchTag), ToLowerTag(tag))

\* the loops over searchTags and tags that set "matched"
RowMatches(searchTags, tags) ==
    \E a \in 1..Len(searchTags), b \in 1..Len(tags) : TagsMatch(searchTags[a], tags[b])

\* SearchImagesByTags over the image rows in query order: the IDs returned
SearchImagesByTags(rows, searchTags) ==
    IF Len(searchTags) = 0 THEN <<>>
    ELSE LET hit(row) == RowMatches(searchTags, row.tags)
             hits == SelectSeq(rows, hit)
         IN [k \in 1..Len(hits) |-> hits[k].id]

\* the image rows of the store: two images with their tag lists
ImageRows ==
    {<<[id |-> 1, tags |-> t1], [id |-> 2, tags |-> t2]>> :
        t1 \in SeqsUpTo(StoredTags, MaxTags), t2 \in SeqsUpTo(StoredTags, MaxTags)}

FnInputs ==
    [fn : {"SearchImagesByTags"}, rows : ImageRows,
     searchTags : SeqsUpTo(QueryTags, MaxTags)]
    \cup
    [fn : {"downloadImage"}, done : BOOLEAN, r : ImageResponses]
    \cup [fn : {"AnalyzeImage"}, done : BOOLEAN, g : Generations]
    \cup [fn : {"page fetch"}, by : PageFetchers, status : Statuses]
    \cup [fn : {"extractTitle"}, doc : Documents, targetURL : {"http://a"}]
    \cup [fn : {"downloadImage (timed)"}, config : Configs,
          takes : 1..(MaxTimeout + 1), cancelAt : {Never} \cup Timeouts]
    \cup [fn : {"extractLinksWithOllama"}, allLinks : RawLinkLists,
          done : BOOLEAN, g : Generations]

FnFrame == UNCHANGED <<scraped_data, images, dbvars, srvvars, scorevars, scrapevars, fin>>

CallDownloadImage ==
    /\ fin.fn = "downloadImage" /\ fout = Nil
    /\ fout' = downloadImage(fin.done, fin.r)
    /\ FnFrame

CallTimedDownload ==
    /\ fin.fn = "downloadImage (timed)" /\ fout = Nil
    /\ fout' = TimedDownload(fin.config, fin.takes, fin.cancelAt)
    /\ FnFrame

CallExtractTitle ==
    /\ fin.fn = "extractTitle" /\ fout = Nil
    /\ fout' = [title |-> TitleOf(fin.doc, fin.targetURL)]
    /\ FnFrame

CallPageFetch ==
    /\ fin.fn = "page fetch" /\ fout = Nil
    /\ fout' = [err |-> FetchStatus(fin.status)]
    /\ FnFrame

CallAnalyzeImage ==
    /\ fin.fn = "AnalyzeImage" /\ fout = Nil
    /\ fout' = AnalyzedEntry(AnalyzeImage(fin.done, fin.g))
    /\ FnFrame

CallExtractLinks ==
    /\ fin.fn = "extractLinksWithOllama" /\ fout = Nil
    /\ fout' = [links |-> extractLinksWithOllama(fin.allLinks, fin.done, fin.g)]
    /\ FnFrame

CallSearchImagesByTags ==
    /\ fin.fn = "SearchImagesByTags" /\ fout = Nil
    /\ fout' = [ids |-> SearchImagesByTags(fin.rows, fin.searchTags)]
    /\ FnFrame

InitFn ==
    /\ scraped_data = {} /\ images = {}
    /\ tx = [p \in Writers |-> IdleTx]
    /\ ret = [p \in Writers |-> "none"]
    /\ writer = 0
    /\ lastCall = [kind |-> "none"]
    /\ SrvOff
    /\ ScoreOff
    /\ ScrapeOff
    /\ fin \in FnInputs
    /\ fout = Nil

NextFn ==
    \/ CallDownloadImage
    \/ CallPageFetch
    \/ CallExtractTitle
    \/ CallTimedDownload
    \/ CallAnalyzeImage
    \/ CallExtractLinks
    \/ CallSearchImagesByTags

SpecFn == InitFn /\ [][NextFn]_vars

\* ------------------------------------------------------------------ claims
ImageIDsOf(d) == {d.images[i].id : i \in 1..Len(d.images)} \ {NoID}
StoredImageIDs(db, id) == {im.id : im \in ImagesOf(db, id)}

\* C1: the store never holds two rows for one URL; after a successful save
\* of a record for URL u exactly one row for u exists, GetByURL(u) returns
\* the saved record under its ID, and the ID the row had before (when it
\* differs) is no longer found by GetByID.
C1_OneRowPerURL ==
    /\ \A u \in StoreURLs : Cardinality(RowsByURL(Committed, u)) <= 1
    /\ lastCall.kind = "save" =>
         LET d == lastCall.data
         IN /\ Cardinality(RowsByURL(Committed, d.url)) = 1
            /\ \A r \in RowsByURL(Committed, d.url) : r.id = d.id
            /\ GetByURL(Committed, d.url) = d
            /\ GetByID(Committed, d.id) = d
            /\ lastCall.prev \notin {NoID, d.id} =>
                 GetByID(Committed, lastCall.prev) = Nil

\* a URL stored under one ID has been saved again under another ID
C1_Witness ==
    /\ lastCall.kind = "save"
    /\ lastCall.prev \notin {NoID, lastCall.data.id}
    /\ lastCall.data.images # <<>>

\* C2: after a successful re-save of a stored URL under a new ID, no image
\* row belongs to the superseded ID and the image rows of the new ID are
\* exactly the images of the new record.
C2_ImagesReplaced ==
    (lastCall.kind = "save" /\ lastCall.prev \notin {NoID, lastCall.data.id}) =>
        /\ ImagesOf(Committed, lastCall.prev) = {}
        /\ StoredImageIDs(Committed, lastCall.data.id) = ImageIDsOf(lastCall.data)

\* C3: every statement of SaveScrapedData short of the successful commit
\* leaves both committed tables as they are, so a call that returns an
\* error has changed nothing; and in every state a reader finds, for each
\* parent row, exactly the image rows its data lists.
SaveStep(p) == tx'[p] # tx[p] \/ ret'[p] # ret[p]
ParentsHaveImages ==
    \A r \in scraped_data :
        StoredImageIDs(Committed, r.id) = ImageIDsOf(Unmarshal(r.data))
C3_AllOrNothing ==
    /\ []ParentsHaveImages
    /\ [][\A p \in Writers :
            (SaveStep(p) /\ ret'[p] # "nil") =>
                UNCHANGED <<scraped_data, images>>]_vars

\* an image insert failed after the upsert of the same call had succeeded,
\* while the store held a record
C3_Witness ==
    /\ ret[1] = "failed to save image"
    /\ scraped_data # {}
    /\ images # {}

\* the result of task i as the caller sees it, in either path
ResultOf(i) ==
    IF mode = "batch" THEN results[i]
    ELSE [url |-> req.urls[i], success |-> resp.status = 200, data |-> resp.body,
          error |-> resp.error,
          cached |-> resp.status = 200 /\ resp.body.cached]
Done(i) == srv \in {"run", "done"} /\ item[i].pc = "done"

\* C5: in a batch, a step of one task changes nothing of any other task
\* (its state, its result slot, its I/O), and a task that ends in failure
\* has written nothing to the store and drawn no identifier, so the other
\* tasks read and produce what they would without it.
C5_FailureIsolated ==
    /\ [](\A k \in Tasks :
            (mode = "batch" /\ Done(k) /\ ~results[k].success) =>
                io[k] \cap {"ai", "store_write"} = {})
    /\ [][\A k \in Tasks :
            (mode = "batch" /\ srv = "run" /\ item'[k] # item[k]) =>
               /\ \A j \in Tasks \ {k} :
                     item'[j] = item[j] /\ results'[j] = results[j] /\ io'[j] = io[j]
               /\ (item'[k].pc = "done" /\ ~results'[k].success) =>
                     UNCHANGED <<scraped_data, images, uuids>>]_vars

\* one task has failed, a sibling has succeeded after it
C5_Witness ==
    /\ mode = "batch" /\ srv = "done" /\ resp.status = 200 /\ Len(req.urls) >= 2
    /\ ~results[1].success /\ results[1].error = "failed to fetch URL"
    /\ results[2].success /\ ~results[2].cached

\* C6: the batch response lists one result per input URL, in input order;
\* while the tasks run, slot i is unset until task i has stored its own
\* result there.
C6_ResultsByIndex ==
    mode = "batch" =>
      /\ (srv = "run" \/ (srv = "done" /\ resp.status = 200)) =>
           /\ Len(results) = Len(req.urls)
           /\ \A i \in Tasks :
                IF item[i].pc = "done" THEN results[i].url = req.urls[i]
                ELSE results[i] = ZeroResult
      /\ (resp # Nil /\ resp.status = 200) =>
           /\ Len(resp.body.results) = Len(req.urls)
           /\ \A i \in Tasks : resp.body.results[i].url = req.urls[i]

\* the second task of a batch of different URLs completed before the first
C6_Witness ==
    /\ mode = "batch" /\ srv = "run" /\ Len(req.urls) = MaxBatch
    /\ req.urls[1] # req.urls[MaxBatch]
    /\ item[1].pc # "done" /\ item[MaxBatch].pc = "done"

\* C7: a finished task's result is marked cached exactly when it is a store
\* hit: force was off and the store read was the only I/O of the task; a
\* task that fetched the page is never marked cached, and with force on no
\* task reads the store and every valid URL is fetched.
C7_CachedMeansRead ==
    \A i \in Tasks : Done(i) =>
        LET r == ResultOf(i)
        IN /\ r.cached <=> (r.success /\ io[i] = {"store_read"})
           /\ r.cached => ~req.force
           /\ r.success => r.data.cached = r.cached
           /\ req.force => "store_read" \notin io[i]
           /\ (req.force /\ ValidateURL(req.urls[i]) = "ok") => "fetch" \in io[i]

\* a forced request for a stored URL has run the pipeline
C7_Witness ==
    /\ srv = "done" /\ req.force
    /\ \E i \in Tasks :
         /\ Done(i) /\ ResultOf(i).success /\ ~ResultOf(i).cached
         /\ GetByURL(Committed, req.urls[i]) # Nil
         /\ "fetch" \in io[i]

\* C11: a task whose SaveScrapedData failed (an I/O fault or a rejected
\* statement) after a successful Scrape still reports its record: success
\* and not cached in a batch, status 200 with the record for a single URL,
\* and the store is left as it was.
C11_SaveFailureStillReturns ==
    \A i \in Tasks :
        (Done(i) /\ item[i].save \in {"fault", "rejected"}) =>
            LET r == ResultOf(i)
            IN /\ r.success /\ ~r.cached /\ r.error = ""
               /\ r.data # Nil /\ r.data.url = req.urls[i] /\ ~r.data.cached
               /\ GetByID(Committed, r.data.id) = Nil
               /\ mode = "single" => resp.status = 200 /\ resp.body = r.data

\* a single-URL request and a batch item whose save was rejected by the store
C11_Witness ==
    /\ srv = "done"
    /\ \E i \in Tasks : item[i].save = "rejected" /\ ResultOf(i).success
    /\ mode = "single" \/ Len(req.urls) = MaxBatch

\* C12: a request rejected for its input (status 400: empty URL, empty or
\* oversized URL list) has caused no I/O at all, and a task whose URL does
\* not parse or is not http(s) ends without any store read or write, page
\* fetch or AI call.
C12_RejectedBeforeIO ==
    /\ (resp # Nil /\ resp.status = 400) => \A i \in Tasks : io[i] = {}
    /\ \A i \in Tasks :
          (Done(i) /\ ValidateURL(req.urls[i]) # "ok") => io[i] = {}

\* C21: a batch response is written only when every task has stored its
\* result; it carries the final result list, and its summary has total = N,
\* success + failed = total, cached + scraped = success, with cached the
\* number of successful cached results and failed the number of failures.
C21_SummaryAgrees ==
    (mode = "batch" /\ resp # Nil /\ resp.status = 200) =>
        LET sum == resp.body.summary
            res == resp.body.results
        IN /\ \A i \in Tasks : item[i].pc = "done" /\ results[i] # ZeroResult
           /\ res = results /\ Len(res) = Len(req.urls)
           /\ sum.total = Len(req.urls)
           /\ sum.success + sum.failed = sum.total
           /\ sum.cached + sum.scraped = sum.success
           /\ sum.cached = Cardinality({i \in 1..Len(res) : res[i].success /\ res[i].cached})
           /\ sum.failed = Cardinality({i \in 1..Len(res) : ~res[i].success})

\* a batch answered with one cached and one failed item
C21_Witness ==
    /\ mode = "batch" /\ resp # Nil /\ resp.status = 200
    /\ Len(req.urls) = MaxBatch
    /\ resp.body.summary.cached = 1 /\ resp.body.summary.failed = 1
    /\ resp.body.summary.scraped = MaxBatch - 2

\* C30: after a failed cache lookup the single-URL handler has answered
\* "database error" with no fetch, AI call or store write made; a batch
\* task goes on as on a miss, fetching every valid URL and never reporting
\* "database error"; and in neither path is the result marked cached.
C30_LookupErrorPaths ==
    \A i \in Tasks : (srv \in {"run", "done"} /\ "store_read_failed" \in io[i]) =>
        /\ mode = "single" =>
              /\ Done(i) /\ resp.status = 500 /\ resp.error = "database error"
              /\ io[i] = {"store_read", "store_read_failed"}
        /\ mode = "batch" =>
              /\ item[i].pc # "enter"
              /\ ValidateURL(req.urls[i]) = "ok" =>
                    item[i].pc = "fetch" \/ "fetch" \in io[i]
              /\ Done(i) => results[i].error # "database error"
        /\ Done(i) => ~ResultOf(i).cached

\* a batch task whose lookup failed has fetched and reported its page
C30_Witness ==
    /\ mode = "batch" /\ srv = "done" /\ resp.status = 200
    /\ \E i \in Tasks :
         /\ "store_read_failed" \in io[i]
         /\ results[i].success /\ ~results[i].cached
         /\ {"fetch", "store_write"} \subseteq io[i]

\* C9: when the two tasks of a batch scrape the same URL, starting from an
\* empty store, and both reach SaveScrapedData with no injected I/O fault,
\* both saves succeed and the store ends with one row for the URL holding
\* one of the two records, with exactly that record's image rows.
C9_ConcurrentSameURL ==
    (/\ mode = "batch" /\ srv = "done" /\ Len(req.urls) = 2
     /\ req.urls[1] = req.urls[2]
     /\ uuids = 2 * (PageImageCount(req.urls[1]) + 1)
     /\ \A i \in Tasks : item[i].save \in {"ok", "rejected"})
    =>
    /\ \A i \in Tasks : item[i].save = "ok"
    /\ Cardinality(RowsByURL(Committed, req.urls[1])) = 1
    /\ GetByURL(Committed, req.urls[1]) \in {results[1].data, results[2].data}
    /\ \A i \in Tasks :
         StoredImageIDs(Committed, results[i].data.id) =
            IF GetByURL(Committed, req.urls[1]) = results[i].data
            THEN ImageIDsOf(results[i].data) ELSE {}

\* C8: two evaluations of scoreContentFallback on the same (url, title,
\* content) return the same score, reason, categories and indicators.
C8_Deterministic ==
    \A a, b \in 1..Len(evals) : evals[a] = evals[b]

ScrapeErrors ==
    {"invalid URL", "URL must be http or https", "failed to fetch URL",
     "HTTP error", "failed to parse HTML"}

\* the record Scrape returns, given which of the AI operations fell back
BuiltFromFallbacks(c) ==
    /\ c.data.content = (IF "clean" \in c.fb THEN "raw" ELSE "ai")
    /\ c.data.aiUsed = ("score" \notin c.fb)
    /\ c.data.links = (IF ~PageHasLinks(c.url) THEN "none"
                       ELSE IF "links" \in c.fb THEN "raw" ELSE "filtered")
    /\ Len(c.data.images) = ExtractedImages(c.url)
    /\ ("image" \in c.fb) =
         (\E k \in 1..Len(c.data.images) :
             c.data.images[k].payload /\ ~c.data.images[k].analyzed)

\* C4: a Scrape call that ends in an error ends with one of the validation,
\* fetch, status or parse errors, before any AI operation has run and with
\* no record; a call that got past parsing ends with a nil error and a
\* record in which every failed AI operation is replaced by its fallback.
C4_ErrorsOnlyBeforeAugmentation ==
    \A i \in Callers :
        /\ sc[i].pc = "failed" =>
             sc[i].err \in ScrapeErrors /\ sc[i].fb = {} /\ sc[i].data = Nil
        /\ sc[i].pc = "ok" =>
             sc[i].err = "" /\ sc[i].data # Nil /\ BuiltFromFallbacks(sc[i])
        /\ sc[i].fb # {} => sc[i].pc \notin {"validate", "fetch", "parse", "failed"}

\* all four AI operations failed without any cancellation, and the call
\* returned a record
C4_Witness ==
    /\ ~parentCancelled
    /\ \E i \in Callers :
         /\ ~cancelled[i]
         /\ sc[i].pc = "ok" /\ sc[i].fb = AIOps /\ sc[i].data # Nil
         /\ sc[i].data.content = "raw" /\ ~sc[i].data.aiUsed

\* the entry processImages keeps for image k when its download failed
BareImage(k) == [src |-> k, hasID |-> TRUE, payload |-> FALSE, analyzed |-> FALSE]

\* C13: with image analysis on, once processImages has returned, the list
\* has one entry per extracted image, entry k being image k with an ID, and
\* an entry has a summary only if it has a payload; and a failed download
\* appends the bare entry of its image and goes on with the next image.
C13_OneEntryPerImage ==
    /\ [](\A i \in Callers :
            (analysis /\ sc[i].pc \in {"links", "score", "ok"}) =>
               /\ Len(sc[i].imgs) = ExtractedImages(sc[i].url)
               /\ \A k \in 1..Len(sc[i].imgs) :
                     /\ sc[i].imgs[k].src = k /\ sc[i].imgs[k].hasID
                     /\ sc[i].imgs[k].analyzed => sc[i].imgs[k].payload)
    /\ [][\A i \in Callers :
            (sc[i].pc = "download" /\ sc'[i] # sc[i] /\ sc'[i].pc # "analyze") =>
               /\ sc'[i].imgs = Append(sc[i].imgs, BareImage(Len(sc[i].imgs) + 1))
               /\ sc'[i].pc = IF Len(sc'[i].imgs) < ExtractedImages(sc[i].url)
                              THEN "download" ELSE "links"]_vars

\* the first image's download failed and the second image was still
\* downloaded and analysed
C13_Witness ==
    \E i \in Callers :
        /\ analysis /\ sc[i].pc = "ok" /\ Len(sc[i].imgs) = MaxPageImages
        /\ sc[i].imgs[1] = BareImage(1)
        /\ sc[i].imgs[MaxPageImages].payload /\ sc[i].imgs[MaxPageImages].analyzed
        /\ sc[i].data.images = sc[i].imgs

\* task i's step completes a network call successfully
OpSucceeded(i) ==
    /\ sc'[i] # sc[i]
    /\
       \/ sc[i].pc = "fetch" /\ sc'[i].pc = "parse"
       \/ sc[i].pc = "parse" /\ sc'[i].pc = "clean"
       \/ sc[i].pc = "clean" /\ sc'[i].content = "ai"
       \/ sc[i].pc = "download" /\ sc'[i].pc = "analyze"
       \/ sc[i].pc = "analyze" /\ sc'[i].imgs[Len(sc'[i].imgs)].analyzed
       \/ sc[i].pc = "links" /\ sc'[i].links = "filtered"
       \/ sc[i].pc = "score" /\ sc'[i].data.aiUsed

C17_FacebookIsSocialMedia ==
    (sin # Nil /\ Contains(LowerURL(sin.url), "facebook.com")) =>
        \A a \in 1..Len(evals) :
            /\ evals[a].score = 1
            /\ "social_media" \in Range(evals[a].categories)
            /\ evals[a].indicators # <<>>

C19_DeleteCascades ==
    lastCall.kind = "delete" =>
        /\ RowsByID(Committed, lastCall.id) = {}
        /\ ImagesOf(Committed, lastCall.id) = {}

\* C20: a committed save leaves one row for the URL with the record's id,
\* its serialized data and the save's updated_at; created_at is the one the
\* row had before the save when the URL was stored, and the record's
\* FetchedAt when it was not.
C20_CreatedAtPreserved ==
    [][(lastCall' # lastCall /\ lastCall'.kind = "save") =>
          LET d   == lastCall'.data
              old == {r \in scraped_data : r.url = d.url}
              new == {r \in scraped_data' : r.url = d.url}
          IN /\ Cardinality(new) = 1
             /\ \A r \in new :
                   /\ r.id = d.id /\ r.data = Marshal(d) /\ r.updated_at = Now(d)
                   /\ r.created_at = IF old = {} THEN FetchedAt(d)
                                     ELSE (CHOOSE o \in old : TRUE).created_at]_vars

\* a row created by one record now holds another record and still has the
\* first record's created_at
C20_Witness ==
    /\ lastCall.kind = "save"
    /\ \E r \in scraped_data :
          /\ r.url = lastCall.data.url /\ r.id = lastCall.data.id
          /\ r.created_at # FetchedAt(lastCall.data)
          /\ r.updated_at = Now(lastCall.data)

\* how often x occurs in the sequence q
Occurrences(q, x) == Cardinality({k \in 1..Len(q) : q[k] = x})

\* C22: in every value returned for a URL outside the block list, the
\* quality-domain reason and each of the tags "reference", "trusted_source",
\* "technical" and "educational" occur at most once, and the score exceeds
\* the score of the same content without quality domain and technical
\* keywords by at most 0.3 for the domains plus 0.1 for the keywords.
C22_BonusesOnce ==
    sin # Nil =>
      \A a \in 1..Len(evals) :
        LET out   == evals[a]
            url   == LowerURL(sin.url)
            plain == ScoreRules(<<>>, [keywords |-> {}],
                                [sin.content EXCEPT !.keywords = {}])
            q     == IF QualityHits(url) > 0 THEN 3 ELSE 0
            t     == IF TechnicalHits(sin.title, sin.content) > 0 THEN 1 ELSE 0
        IN (\A e \in blockedDomains : ~Contains(url, e[1])) =>
             /\ Occurrences(out.reason.parts, "Quality domain detected") <= 1
             /\ \A c \in {"reference", "trusted_source", "technical", "educational"} :
                   Occurrences(out.categories, c) <= 1
             /\ out.score <= plain.score + q + t
             /\ (q = 3) = (Occurrences(out.categories, "reference") = 1)
             /\ (t = 1) = (Occurrences(out.categories, "technical") = 1)

\* a URL with two quality-domain substrings and a text with three technical
\* keywords scored 0.4 above the plain content
C22_Witness ==
    /\ sin # Nil /\ Len(evals) > 0
    /\ QualityHits(LowerURL(sin.url)) = 2
    /\ TechnicalHits(sin.title, sin.content) = 3
    /\ evals[1].score = 4 + ScoreRules(<<>>, [keywords |-> {}],
                                       [sin.content EXCEPT !.keywords = {}]).score

\* the input of the scenario: no block-listed and no quality-domain substring
\* in the URL, about 180 words, no technical keyword, no spam phrase, no
\* excess punctuation
NeutralInput ==
    /\ sin # Nil
    /\ \A e \in blockedDomains : ~Contains(LowerURL(sin.url), e[1])
    /\ QualityHits(LowerURL(sin.url)) = 0
    /\ sin.content.words = 180
    /\ TechnicalHits(sin.title, sin.content) = 0
    /\ sin.content.clickHere = 0 /\ sin.content.buyNow = 0
    /\ sin.content.limitedOffer = 0
    /\ ~(sin.content.excl > sin.content.words \div 10 /\ sin.content.excl > 5)

InRangeWithDefault(out) ==
    /\ out.score >= 5 /\ out.score <= 9
    /\ out.categories = IF out.score >= 6 THEN <<"informational">> ELSE <<"general">>

\* C23 as stated: every neutral input of about 180 words scores within
\* [0.5, 0.9], with "informational" from 0.6 on and "general" below.
C23_NeutralRange_Original ==
    NeutralInput => \A a \in 1..Len(evals) : InRangeWithDefault(evals[a])

\* C23 amended: a neutral input of about 180 words and at least 500
\* characters scores within [0.5, 0.9]; its category list is
\* {"informational"} from 0.6 on and {"general"} below.
C23_NeutralRange ==
    (NeutralInput /\ sin.content.len >= 500) =>
        \A a \in 1..Len(evals) : InRangeWithDefault(evals[a])

\* 180 neutral words in 700 characters scored: no rule sets a category
C23_Witness ==
    /\ NeutralInput /\ sin.content.len = 700 /\ Len(evals) > 0
    /\ evals[1].score = 5 /\ evals[1].categories = <<"general">>

\* C24: an image download is aborted exactly when the transfer is still
\* running at the per-image timeout or at the cancellation of the caller's
\* context, whichever is first, and at that time; the page-level timeout
\* plays no part.
C24_ImageTimeoutIndependent ==
    (fin # Nil /\ fin.fn = "downloadImage (timed)" /\ fout # Nil) =>
        LET stop == IF fin.cancelAt # Never
                    THEN Min(fin.config.ImageTimeout, fin.cancelAt)
                    ELSE fin.config.ImageTimeout
        IN /\ fout.aborted = (fin.takes >= stop)
           /\ fout.aborted => fout.at = stop

\* the steps of Scrape after the page has been fetched and parsed
AfterParse == {"clean", "download", "analyze", "links", "score"}

\* task i's step ends a sub-operation of Scrape on its fallback
FellBack(i) ==
    /\ sc'[i].pc # "failed"
    /\ sc[i].pc = "clean" => sc'[i].content = "raw" /\ "clean" \in sc'[i].fb
    /\ sc[i].pc = "download" =>
          sc'[i].imgs[Len(sc'[i].imgs)] = BareImage(Len(sc'[i].imgs))
    /\ sc[i].pc = "analyze" =>
          /\ ~sc'[i].imgs[Len(sc'[i].imgs)].analyzed
          /\ "image" \in sc'[i].fb
    /\ (sc[i].pc = "links" /\ PageHasLinks(sc[i].url)) =>
          sc'[i].links = "raw" /\ "links" \in sc'[i].fb
    /\ sc[i].pc = "score" =>
          /\ "score" \in sc'[i].fb
          /\ sc'[i].pc = "ok" /\ ~sc'[i].data.aiUsed

\* C25: once a task's context is done after its page has been fetched and
\* parsed, every further step of its Scrape ends on the fallback and none
\* fails the call; the handler saves the record Scrape returns and reports
\* it as a success with cached = false.
C25_CancelAfterParseDegrades ==
    [][\A i \in Callers :
          (CtxDone(i) /\ sc'[i] # sc[i]) =>
              /\ sc[i].pc \in AfterParse => FellBack(i)
              /\ sc[i].pc = "score" =>
                    /\ sc'[i].saved = sc'[i].data
                    /\ sc'[i].result = Success(sc[i].url, sc'[i].data, FALSE)]_vars

\* task 1 was cancelled after parsing, ran every sub-operation of a page
\* with images and links on its fallback, and was reported as a success
C25_Witness ==
    /\ analysis /\ cancelled[1] /\ ~parentCancelled
    /\ sc[1].result # Nil /\ sc[1].result.success /\ ~sc[1].result.cached
    /\ sc[1].saved = sc[1].data
    /\ sc[1].fb = {"clean", "links", "score"}
    /\ Len(sc[1].imgs) = MaxPageImages
    /\ \A k \in 1..Len(sc[1].imgs) : sc[1].imgs[k] = BareImage(k)

\* the position of link x in the duplicate-free list q
IndexIn(q, x) == CHOOSE k \in 1..Len(q) : q[k] = x

\* C26: every link extractLinksWithOllama returns is one of the raw links,
\* none occurs twice, and the links keep the order of the raw list.
C26_LinksAreSubList ==
    (fin # Nil /\ fin.fn = "extractLinksWithOllama" /\ fout # Nil) =>
        LET raw == fin.allLinks
            res == fout.links
        IN /\ \A k \in 1..Len(res) : res[k] \in Range(raw)
           /\ \A a, b \in 1..Len(res) :
                 a < b => /\ res[a] # res[b]
                          /\ (res[a] \in Range(raw) /\ res[b] \in Range(raw)) =>
                                IndexIn(raw, res[a]) < IndexIn(raw, res[b])

\* C27: the title of a document whose first <title> element has text is
\* that text, trimmed, whatever <title> elements follow; the title of a
\* document without title text is the target URL.
C27_FirstTitleWins ==
    (fin # Nil /\ fin.fn = "extractTitle" /\ fout # Nil) =>
        /\ (fin.doc # <<>> /\ TrimSpace(fin.doc[1]) \notin {"", NoChild}) =>
                fout.title = TrimSpace(fin.doc[1])
        /\ (\A k \in 1..Len(fin.doc) : TrimSpace(fin.doc[k]) \in {"", NoChild}) =>
                fout.title = fin.targetURL

\* C28: the page fetch of Scrape, ExtractLinks and ScoreLinkContent fails
\* with an HTTP error exactly for the statuses outside 200-299.
C28_RejectsExactlyNon2xx ==
    (fin # Nil /\ fin.fn = "page fetch" /\ fout # Nil) =>
        ((fout.err = "HTTP error") = ~(fin.status >= 200 /\ fin.status <= 299))

\* a value that shows a rule at work: a score off the neutral 0.5, an
\* indicator, or a category list other than the default for that score
RuleTriggered(out) ==
    out.score # 5 \/ out.indicators # <<>> \/ out.categories # <<"general">>

\* C29: every reason scoreContentFallback returns starts with "Rule-based";
\* it is "Rule-based: " followed by the texts of the triggered rules
\* whenever a rule triggered, and the default text only when none did.
C29_ReasonIsRuleBased ==
    sin # Nil =>
      \A a \in 1..Len(evals) :
        LET out == evals[a]
        IN /\ out.reason.prefix \in {"Rule-based: ",
                                     "Rule-based assessment (Ollama unavailable)"}
           /\ RuleTriggered(out) =>
                 out.reason.prefix = "Rule-based: " /\ out.reason.parts # <<>>
           /\ out.reason.prefix = "Rule-based assessment (Ollama unavailable)" =>
                 ~RuleTriggered(out) /\ out.reason.parts = <<>>

\* C14: a payload returned by downloadImage is the whole body and is at
\* most MaxImageSizeBytes long; an advertised length or a body over the
\* ceiling gives an error, whatever the other one says; and a body of
\* exactly MaxImageSizeBytes bytes from a well-behaved server is returned.
C14_DownloadWithinCeiling ==
    (fin # Nil /\ fin.fn = "downloadImage" /\ fout # Nil) =>
        /\ fout.err = "" => fout.len <= MaxImageSizeBytes /\ fout.len = fin.r.body
        /\ (fin.r.contentLength > MaxImageSizeBytes \/ fin.r.body > MaxImageSizeBytes)
              => fout.err # ""
        /\ (/\ ~fin.done /\ ~fin.r.doErr /\ fin.r.status = 200 /\ ~fin.r.readErr
            /\ fin.r.body = MaxImageSizeBytes
            /\ fin.r.contentLength \in {-1, MaxImageSizeBytes})
              => fout.err = "" /\ fout.len = MaxImageSizeBytes

\* a body over the ceiling, sent with a smaller advertised length, was refused
C14_Witness ==
    /\ fin # Nil /\ fin.fn = "downloadImage" /\ fout # Nil
    /\ ~fin.done /\ ~fin.r.doErr /\ fin.r.status = 200 /\ ~fin.r.readErr
    /\ fin.r.contentLength = 1 /\ fin.r.body = MaxImageSizeBytes + 1
    /\ fout.err = "image too large: exceeds"

\* C15: when the analysis of a downloaded image fails, by an error of the
\* call or by a response that does not decode into {summary, tags}, the
\* entry keeps its payload and has an empty summary and no tags.
C15_AnalysisFailureKeepsPayload ==
    (/\ fin # Nil /\ fin.fn = "AnalyzeImage" /\ fout # Nil
     /\ \/ fin.done \/ fin.g.err
        \/ UnmarshalAnalysisFails(stripMarkdownCodeBlocks(fin.g.text)))
    => fout.payload /\ fout.summary = "" /\ ~fout.tags

\* C16: when the link-filter call fails or its response is not a JSON list
\* of strings, extractLinksWithOllama returns the raw list unchanged.
C16_LinkFallbackIsRawList ==
    (/\ fin # Nil /\ fin.fn = "extractLinksWithOllama" /\ fout # Nil
     /\ \/ fin.done \/ fin.g.err
        \/ fin.g.text.k # "array"
        \/ fin.g.text.fenced \/ "#" \in Range(fin.g.text.elems))
    => fout.links = fin.allLinks

InitDB ==
    /\ scraped_data = {}
    /\ images = {}
    /\ tx = [p \in Writers |-> IdleTx]
    /\ ret = [p \in Writers |-> "none"]
    /\ writer = 0
    /\ lastCall = [kind |-> "none"]
    /\ SrvOff
    /\ ScoreOff
    /\ ScrapeOff
    /\ FnOff

NextDB ==
    \/ \E p \in Writers : TxBegin(p)
    \/ \E p \in Writers : TxUpsert(p)
    \/ \E p \in Writers : TxDeleteImages(p)
    \/ \E p \in Writers : TxInsertImage(p)
    \/ \E p \in Writers : TxCommit(p)
    \/ DeleteByID

SpecDB == InitDB /\ [][NextDB]_vars

Spec == SpecDB
====
